---------------------------- MODULE Spec2Model ----------------------------
(***************************************************************************)
(* Model of the service lifecycle orchestrator of package app:             *)
(* construction by options, Start() with its listener tasks and the error  *)
(* queue, Stop() with its ordered teardown, the Ready() sweep and the      *)
(* IsAlive() probe.                                                        *)
(***************************************************************************)
EXTENDS Naturals, Sequences, FiniteSets

(* ------------------------------ bounds --------------------------------- *)

\* largest number of gRPC listeners a configuration registers
MaxGRPC == 1

\* largest number of HTTP listeners a configuration registers
MaxHTTP == 1

\* names the embedding application registers dependent components under,
\* in the order it registers them
SubOrder == <<"cache", "queue">>

SubNames == {SubOrder[i] : i \in DOMAIN SubOrder}

\* longest list of options a call of New is given
MaxOptions == 3

\* largest number of HTTP servers AddHTTPServer is used to reach
MaxAdded == 2

\* largest number of AddGRPCService calls
MaxAddCalls == 2

\* largest number of checkers a health handler is built with
MaxCheckers == 5

\* bind addresses; every listener of the model binds one of them
GRPCAddrs == {"g1"}

HTTPAddrs == {"h1"}

Addrs == GRPCAddrs \cup HTTPAddrs

\* server names AddGRPCService is called with: the registered addresses
\* and one no listener has
ServerNames == GRPCAddrs \cup {"my-server"}

\* connection strings of DBOption: one the pool accepts, one it rejects
ConnStrings == {"dsn", "bad"}

\* the options New can be given
Options ==
    {[kind |-> "grpc", arg |-> a] : a \in GRPCAddrs}
       \cup {[kind |-> "http", arg |-> a] : a \in HTTPAddrs}
       \cup {[kind |-> "db", arg |-> c] : c \in ConnStrings}

\* the Ready() sweeps in flight: the one Start launches, and the
\* application's own call
Sweepers == {"bg", "call"}

VARIABLES
    svc,            \* "none", "config" while New applies options, "built", "failed"
    pending,        \* options New has still to apply
    applyErr,       \* an option's Apply has returned an error
    grpcServices,   \* number of services registered on each gRPC server
    addArg,         \* serverName of the last AddGRPCService call
    addRet,         \* what the last AddGRPCService returned: "none", "nil", "notfound"
    addCalls,       \* number of AddGRPCService calls so far
    areAlive,       \* Handler.areAlive: the checkers of the health handler
    liveAnswers,    \* what each checker would answer at the last /health/live request
    liveResponse,   \* what the handler did with the last /health/live request
    healthStatus,   \* what the last GetHealthStatus() returned
    GRPCServers,    \* Service.GRPCServers: sequence of bind addresses
    HTTPServers,    \* Service.HTTPServers: sequence of bind addresses
    DB,             \* Service.DB # nil
    SubServices,    \* keys of Service.SubServices
    isReady,        \* Service.isReady, the readiness snapshot
    errChanClosed,  \* Service.ErrChan has been closed
    crashed,        \* a goroutine panicked: the process is gone
    trigger,        \* what the signal trap has to deliver: "none", "sig", "err"
    startPc,        \* position of Start(): "idle", "wait", "postwait", "returned"
    waitRet,        \* what sigHandler.Wait returned to Start(): "none", "sig"
                    \* (nil or ErrTermSig, which Start treats alike), "err"
    startRet,       \* what Start() returned: "none", "nil", "err"
    grpcTask,       \* position of each gRPC listener task
    httpTask,       \* position of each HTTP listener task
    grpcEnd,        \* how net.Listen and Serve of each gRPC task ended:
                    \* "none", "closed", "bind", "serve"
    httpEnd,        \* how ListenAndServe of each HTTP task ended
    grpcPush,       \* the send on ErrChan of each gRPC task: "none", begun
                    \* "early" (before the trigger) or "late", "sent"
    httpPush,       \* the send on ErrChan of each HTTP task
    grpcStopped,    \* GracefulStop has closed the gRPC server's listener
    httpShut,       \* Shutdown has closed the HTTP server's listener
    grpcReq,        \* the gRPC listener has an RPC in flight
    httpReq,        \* the HTTP listener has a request in flight
    drainPc,        \* the fan-in sink: "none", "running", "done"
    observed,       \* number of errors the fan-in sink has logged
    foreign,        \* addresses another endpoint of the host is bound to
    stopPc,         \* position of Stop()
    stopSubsLeft,   \* dependents the running Stop() has not closed yet
    stopIdx,        \* index of the listener the running Stop() is at
    stopCalls,      \* number of Stop() calls so far
    stopNormal,     \* the first Stop() call followed a Start() that returned nil
    stopLog,        \* teardown steps the running (or last) Stop() has completed
    deadline,       \* shutdownCtx of the running Stop() has expired
    stopErrs,       \* the dependents whose Close and the HTTP servers whose
                    \* Shutdown returned an error to the running (or last) Stop()
    subCloses,      \* Close() calls each dependent has received
    grpcStops,      \* GracefulStop() calls each gRPC server has completed
    httpStops,      \* Shutdown() calls each HTTP server has completed
    grpcStarts,     \* serving tasks Start() has launched for each gRPC server
    httpStarts,     \* serving tasks Start() has launched for each HTTP server
    dbCloses,       \* Close() calls the pool has received
    dbUp,           \* the data store answers a Ping
    sweepPc,        \* position of each Ready() sweep: "idle", "subs", "http", "retry", "store"
    sweepIdx,       \* index of the HTTP server a sweep is probing
    areSubServicesReady, \* local of Ready(): no dependent answered not-ready
    sweepNotReady,  \* some dependent answered not-ready to the sweep
    sweepLog,       \* what the last two completed sweeps were told, oldest first
    alivePc,        \* position of the IsAlive() call: "idle", "http", "retry", "db"
    aliveIdx,       \* index of the HTTP server IsAlive() is probing
    aliveRet,       \* what the last IsAlive() returned: "none", "true", "false"
    aliveConflict   \* the last IsAlive() was called during an address conflict

newVars == <<pending, applyErr>>

addVars == <<grpcServices, addArg, addRet, addCalls>>

healthVars == <<areAlive, liveAnswers, liveResponse, healthStatus>>

regVars == <<svc, GRPCServers, HTTPServers, DB, SubServices, newVars, addVars,
             healthVars>>

startVars == <<startPc, waitRet, startRet>>

grpcTaskVars == <<grpcTask, grpcEnd, grpcPush>>

httpTaskVars == <<httpTask, httpEnd, httpPush>>

taskVars == <<grpcTaskVars, httpTaskVars>>

srvVars == <<grpcStopped, httpShut>>

reqVars == <<grpcReq, httpReq>>

chanVars == <<errChanClosed, drainPc, observed>>

stopVars == <<stopPc, stopSubsLeft, stopIdx, stopCalls, stopNormal, stopLog,
              deadline, stopErrs>>

countVars == <<subCloses, grpcStops, httpStops, dbCloses, grpcStarts,
               httpStarts>>

envVars == <<trigger, foreign, dbUp>>

sweepVars == <<sweepPc, sweepIdx, areSubServicesReady, sweepNotReady,
               sweepLog>>

aliveVars == <<alivePc, aliveIdx, aliveRet, aliveConflict>>

probeVars == <<sweepVars, aliveVars>>

vars == <<regVars, startVars, taskVars, srvVars, reqVars, chanVars, stopVars,
          countVars, envVars, isReady, crashed, probeVars>>

(* ------------------------------ helpers -------------------------------- *)

\* no teardown step has failed
NoErrs == [subs |-> {}, http |-> {}]

\* no request has been answered
NoResponse == [status |-> 0, ErrorCode |-> 0, ErrorDetails |-> "", written |-> FALSE]

\* GetHealthStatus has not been called
NoStatus == [Status |-> "none", Services |-> {}]

\* the Service has one listener, it has been started, and another endpoint
\* holds the listener's address
AddressConflict ==
    /\ Len(GRPCServers) + Len(HTTPServers) = 1
    /\ startPc # "idle"
    /\ \/ \E i \in DOMAIN HTTPServers : HTTPServers[i] \in foreign
       \/ \E i \in DOMAIN GRPCServers : GRPCServers[i] \in foreign

\* a listener of the service holds a socket bound to address a
BoundHere(a) ==
    \/ \E i \in DOMAIN HTTPServers :
          HTTPServers[i] = a /\ httpTask[i] = "serving" /\ ~httpShut[i]
    \/ \E i \in DOMAIN GRPCServers :
          GRPCServers[i] = a /\ grpcTask[i] = "serving" /\ ~grpcStopped[i]

\* some endpoint accepts TCP connections at address a
Reachable(a) == a \in foreign \/ BoundHere(a)

Running == svc = "built" /\ ~crashed

(* ------------------------------ Init ----------------------------------- *)

Init ==
    /\ svc = "none"
    /\ pending = <<>>
    /\ applyErr = FALSE
    /\ grpcServices = <<>>
    /\ addArg = "none"
    /\ addRet = "none"
    /\ addCalls = 0
    /\ areAlive = <<>>
    /\ liveAnswers = <<>>
    /\ liveResponse = NoResponse
    /\ healthStatus = NoStatus
    /\ GRPCServers = <<>>
    /\ HTTPServers = <<>>
    /\ DB = FALSE
    /\ SubServices = {}
    /\ isReady = FALSE
    /\ errChanClosed = FALSE
    /\ crashed = FALSE
    /\ trigger = "none"
    /\ startPc = "idle"
    /\ waitRet = "none"
    /\ startRet = "none"
    /\ grpcTask = <<>>
    /\ httpTask = <<>>
    /\ grpcEnd = <<>>
    /\ httpEnd = <<>>
    /\ grpcPush = <<>>
    /\ httpPush = <<>>
    /\ grpcStopped = <<>>
    /\ httpShut = <<>>
    /\ grpcReq = <<>>
    /\ httpReq = <<>>
    /\ drainPc = "none"
    /\ observed = 0
    /\ foreign = {}
    /\ stopPc = "idle"
    /\ stopSubsLeft = {}
    /\ stopIdx = 0
    /\ stopCalls = 0
    /\ stopNormal = FALSE
    /\ stopLog = <<>>
    /\ deadline = FALSE
    /\ stopErrs = NoErrs
    /\ subCloses = [n \in SubNames |-> 0]
    /\ grpcStops = <<>>
    /\ httpStops = <<>>
    /\ grpcStarts = <<>>
    /\ httpStarts = <<>>
    /\ dbCloses = 0
    /\ dbUp = TRUE
    /\ sweepPc = [k \in Sweepers |-> "idle"]
    /\ sweepIdx = [k \in Sweepers |-> 0]
    /\ areSubServicesReady = [k \in Sweepers |-> TRUE]
    /\ sweepNotReady = [k \in Sweepers |-> FALSE]
    /\ sweepLog = <<>>
    /\ alivePc = "idle"
    /\ aliveIdx = 0
    /\ aliveRet = "none"
    /\ aliveConflict = FALSE

(* ------------------------- construction -------------------------------- *)

\* the lists of options of length n or less
OptionLists(n) == UNION {[1..k -> Options] : k \in 0..n}

\* the number of options of kind k in a list
CountKind(opts, k) == Cardinality({i \in DOMAIN opts : opts[i].kind = k})

\* New is called with the options opts: the Service is allocated with
\* isReady false, an open ErrChan and an empty SubServices map
NewCall(opts) ==
    /\ svc = "none"
    /\ svc' = "config"
    /\ pending' = opts
    /\ UNCHANGED <<GRPCServers, HTTPServers, DB, SubServices, applyErr,
                   addVars, startVars, taskVars, srvVars, reqVars, chanVars,
                   stopVars, countVars, envVars, isReady, crashed, probeVars, healthVars>>

\* New is at the option o of its loop
NextOption(o) == svc = "config" /\ pending # <<>> /\ Head(pending) = o

\* GRPCServerOption.Apply: appends a listener for address a
ApplyGRPCServer(a) ==
    /\ NextOption([kind |-> "grpc", arg |-> a])
    /\ pending' = Tail(pending)
    /\ GRPCServers' = Append(GRPCServers, a)
    /\ grpcServices' = Append(grpcServices, 0)
    /\ grpcTask' = Append(grpcTask, "none")
    /\ grpcEnd' = Append(grpcEnd, "none")
    /\ grpcPush' = Append(grpcPush, "none")
    /\ grpcStopped' = Append(grpcStopped, FALSE)
    /\ grpcReq' = Append(grpcReq, FALSE)
    /\ grpcStops' = Append(grpcStops, 0)
    /\ grpcStarts' = Append(grpcStarts, 0)
    /\ UNCHANGED <<svc, HTTPServers, DB, SubServices, applyErr, addArg, addRet,
                   addCalls, startVars, httpTaskVars, httpShut, httpReq, chanVars,
                   stopVars, subCloses, httpStops, httpStarts, dbCloses, envVars, isReady,
                   crashed, probeVars, healthVars>>

\* s.HTTPServers = append(s.HTTPServers, ...) for address a
AppendHTTPServer(a) ==
    /\ HTTPServers' = Append(HTTPServers, a)
    /\ httpTask' = Append(httpTask, "none")
    /\ httpEnd' = Append(httpEnd, "none")
    /\ httpPush' = Append(httpPush, "none")
    /\ httpShut' = Append(httpShut, FALSE)
    /\ httpReq' = Append(httpReq, FALSE)
    /\ httpStops' = Append(httpStops, 0)
    /\ httpStarts' = Append(httpStarts, 0)
    /\ UNCHANGED <<svc, GRPCServers, DB, SubServices, applyErr, addVars,
                   startVars, grpcTaskVars, grpcStopped, grpcReq, chanVars,
                   stopVars, subCloses, grpcStops, grpcStarts, dbCloses, envVars, isReady,
                   crashed, probeVars, healthVars>>

\* TechHTTPServerOption.Apply: appends a listener for address a
ApplyTechHTTPServer(a) ==
    /\ NextOption([kind |-> "http", arg |-> a])
    /\ pending' = Tail(pending)
    /\ AppendHTTPServer(a)

\* ApplyDB with New going on to the next option after a failure
ApplyDB_Continue(ok) ==
    /\ NextOption([kind |-> "db", arg |-> IF ok THEN "dsn" ELSE "bad"])
    /\ pending' = Tail(pending)
    /\ DB' = (DB \/ ok)
    /\ applyErr' = (applyErr \/ ~ok)
    /\ UNCHANGED <<svc, GRPCServers, HTTPServers, SubServices, addVars,
                   startVars, taskVars, srvVars, reqVars, chanVars, stopVars,
                   countVars, envVars, isReady, crashed, probeVars, healthVars>>

\* DBOption.Apply: attaches the pool, or fails, and New returns the error
\* with the options after it not applied
ApplyDB(ok) ==
    /\ NextOption([kind |-> "db", arg |-> IF ok THEN "dsn" ELSE "bad"])
    /\ IF ok THEN /\ DB' = TRUE
                  /\ pending' = Tail(pending)
                  /\ UNCHANGED <<svc, applyErr>>
             ELSE /\ svc' = "failed"
                  /\ applyErr' = TRUE
                  /\ UNCHANGED <<DB, pending>>
    /\ UNCHANGED <<GRPCServers, HTTPServers, SubServices, addVars, startVars,
                   taskVars, srvVars, reqVars, chanVars, stopVars, countVars,
                   envVars, isReady, crashed, probeVars, healthVars>>

\* New returns the Service once its loop over the options has ended
NewReturn ==
    /\ svc = "config"
    /\ pending = <<>>
    /\ svc' = "built"
    /\ UNCHANGED <<GRPCServers, HTTPServers, DB, SubServices, newVars, addVars,
                   startVars, taskVars, srvVars, reqVars, chanVars, stopVars,
                   countVars, envVars, isReady, crashed, probeVars, healthVars>>

\* the index of the first gRPC server with address name, 0 when there is none
FirstGRPCServer(name) ==
    IF \E i \in DOMAIN GRPCServers : GRPCServers[i] = name
       THEN CHOOSE i \in DOMAIN GRPCServers :
               /\ GRPCServers[i] = name
               /\ \A j \in DOMAIN GRPCServers : GRPCServers[j] = name => i <= j
       ELSE 0

\* AddGRPCService creating the listener it does not find
AddGRPCService_Create(name) ==
    /\ Running
    /\ startPc = "idle"
    /\ stopCalls = 0
    /\ addCalls < MaxAddCalls
    /\ addCalls' = addCalls + 1
    /\ addArg' = name
    /\ addRet' = "nil"
    /\ IF FirstGRPCServer(name) # 0
          THEN /\ grpcServices' =
                     [grpcServices EXCEPT ![FirstGRPCServer(name)] = @ + 1]
               /\ UNCHANGED <<GRPCServers, grpcTaskVars, grpcStopped, grpcReq,
                              grpcStops, grpcStarts>>
          ELSE /\ GRPCServers' = Append(GRPCServers, name)
               /\ grpcServices' = Append(grpcServices, 1)
               /\ grpcTask' = Append(grpcTask, "none")
               /\ grpcEnd' = Append(grpcEnd, "none")
               /\ grpcPush' = Append(grpcPush, "none")
               /\ grpcStopped' = Append(grpcStopped, FALSE)
               /\ grpcReq' = Append(grpcReq, FALSE)
               /\ grpcStops' = Append(grpcStops, 0)
               /\ grpcStarts' = Append(grpcStarts, 0)
    /\ UNCHANGED <<svc, HTTPServers, DB, SubServices, newVars, startVars,
                   httpTaskVars, httpShut, httpReq, chanVars, stopVars, subCloses,
                   httpStops, httpStarts, dbCloses, envVars, isReady, crashed, probeVars, healthVars>>

\* AddGRPCService(serverName, ...): the service is registered on the first
\* gRPC server with that address, or "gRPC server not found" is returned
AddGRPCService(name) ==
    /\ Running
    /\ startPc = "idle"
    /\ stopCalls = 0
    /\ addCalls < MaxAddCalls
    /\ addCalls' = addCalls + 1
    /\ addArg' = name
    /\ IF FirstGRPCServer(name) # 0
          THEN /\ grpcServices' =
                     [grpcServices EXCEPT ![FirstGRPCServer(name)] = @ + 1]
               /\ addRet' = "nil"
          ELSE /\ grpcServices' = grpcServices
               /\ addRet' = "notfound"
    /\ UNCHANGED <<svc, GRPCServers, HTTPServers, DB, SubServices, newVars,
                   startVars, taskVars, srvVars, reqVars, chanVars, stopVars,
                   countVars, envVars, isReady, crashed, probeVars, healthVars>>

\* AddHTTPServer(httpServer): appends the server, whatever its address
AddHTTPServer(a) ==
    /\ Running
    /\ startPc = "idle"
    /\ stopCalls = 0
    /\ Len(HTTPServers) < MaxAdded
    /\ UNCHANGED newVars
    /\ AppendHTTPServer(a)

\* the embedding application stores a dependent in the SubServices map
\* (the names are interchangeable, so they are taken in one order)
RegisterSubService(n) ==
    /\ Running
    /\ startPc = "idle"
    /\ stopCalls = 0
    /\ Cardinality(SubServices) < Len(SubOrder)
    /\ n = SubOrder[Cardinality(SubServices) + 1]
    /\ SubServices' = SubServices \cup {n}
    /\ UNCHANGED <<svc, GRPCServers, HTTPServers, DB, newVars, addVars,
                   startVars, taskVars, srvVars, reqVars, chanVars, stopVars,
                   countVars, envVars, isReady, crashed, probeVars, healthVars>>

\* another endpoint of the host binds address a, which a listener of the
\* Service is registered for, before the Service is started
ForeignBind(a) ==
    /\ Running
    /\ startPc = "idle"
    /\ stopCalls = 0
    /\ a \notin foreign
    /\ \/ \E i \in DOMAIN HTTPServers : HTTPServers[i] = a
       \/ \E i \in DOMAIN GRPCServers : GRPCServers[i] = a
    /\ foreign' = foreign \cup {a}
    /\ UNCHANGED <<regVars, startVars, taskVars, srvVars, reqVars, chanVars,
                   stopVars, countVars, trigger, dbUp, isReady, crashed,
                   probeVars>>

(* ------------------------------ Start ---------------------------------- *)

\* LaunchEach with the tasks sharing the loop variable: every task serves
\* the listener of the last round
LaunchEach_SharedLoopVar(starts) ==
    [i \in DOMAIN starts |-> IF i = Len(starts) THEN starts[i] + Len(starts)
                                                ELSE starts[i]]

\* the serving tasks the loops of Start launch for the listeners whose
\* launch counts are starts: each round launches one task for the listener
\* of that round (the round's copy of the loop variable)
LaunchEach(starts) == [i \in DOMAIN starts |-> starts[i] + 1]

\* Start, up to the signal wait: one task per listener is launched, and
\* the background Ready() sweep
StartLaunch ==
    /\ Running
    /\ startPc = "idle"
    /\ stopPc \in {"idle", "done"}
    /\ httpTask' = [i \in DOMAIN HTTPServers |-> "run"]
    /\ grpcTask' = [i \in DOMAIN GRPCServers |-> "run"]
    /\ httpStarts' = LaunchEach(httpStarts)
    /\ grpcStarts' = LaunchEach(grpcStarts)
    /\ UNCHANGED <<grpcEnd, httpEnd, grpcPush, httpPush>>
    /\ sweepPc' = [sweepPc EXCEPT !["bg"] = "subs"]
    /\ startPc' = "wait"
    /\ UNCHANGED <<regVars, waitRet, startRet, srvVars, reqVars, chanVars,
                   stopVars, subCloses, grpcStops, httpStops, dbCloses,
                   envVars, isReady, crashed, sweepIdx, areSubServicesReady,
                   sweepNotReady, sweepLog, aliveVars>>

\* the signal trap: a termination signal arrives ("sig"), or the wait is
\* about to fail with another error ("err")
Trigger(t) ==
    /\ Running
    /\ trigger = "none"
    /\ trigger' = t
    /\ UNCHANGED <<regVars, startVars, taskVars, srvVars, reqVars, chanVars,
                   stopVars, countVars, foreign, dbUp, isReady, crashed,
                   probeVars>>

\* SignalTrap.Wait blocks until a termination signal arrives or it fails
SignalWaitReturns == trigger # "none"

\* s.sigHandler.Wait(ctx) returns to Start
StartWaitReturn ==
    /\ Running
    /\ startPc = "wait"
    /\ SignalWaitReturns
    /\ waitRet' = trigger
    /\ startPc' = "postwait"
    /\ UNCHANGED <<regVars, startRet, taskVars, srvVars, reqVars, chanVars,
                   stopVars, countVars, envVars, isReady, crashed, probeVars>>

\* StartFinish with Start also returning as soon as a listener task has an
\* error to report
StartFinish_OnListenerError ==
    /\ Running
    /\ \/ startPc = "postwait"
       \/ /\ startPc = "wait"
          /\ \/ \E i \in DOMAIN HTTPServers : httpTask[i] = "send"
             \/ \E i \in DOMAIN GRPCServers : grpcTask[i] = "send"
    /\ IF waitRet = "sig"
          THEN startRet' = "nil" /\ drainPc' = "running"
          ELSE startRet' = "err" /\ drainPc' = drainPc
    /\ startPc' = "returned"
    /\ UNCHANGED <<regVars, waitRet, taskVars, srvVars, reqVars,
                   errChanClosed, observed, stopVars, countVars, envVars,
                   isReady, crashed, probeVars>>

\* StartFinish with the fan-in sink started before the error is looked at
StartFinish_DrainAlways ==
    /\ Running
    /\ startPc = "postwait"
    /\ startRet' = IF waitRet = "err" THEN "err" ELSE "nil"
    /\ drainPc' = "running"
    /\ startPc' = "returned"
    /\ UNCHANGED <<regVars, waitRet, taskVars, srvVars, reqVars,
                   errChanClosed, observed, stopVars, countVars, envVars,
                   isReady, crashed, probeVars>>

\* Start after the wait: an error other than ErrTermSig is returned as it
\* is; otherwise the fan-in sink is started and Start returns nil
StartFinish ==
    /\ Running
    /\ startPc = "postwait"
    /\ IF waitRet = "err"
          THEN startRet' = "err" /\ drainPc' = drainPc
          ELSE startRet' = "nil" /\ drainPc' = "running"
    /\ startPc' = "returned"
    /\ UNCHANGED <<regVars, waitRet, taskVars, srvVars, reqVars,
                   errChanClosed, observed, stopVars, countVars, envVars,
                   isReady, crashed, probeVars>>

(* --------------------------- listener tasks ---------------------------- *)

\* when a task comes to its send: before the trap has anything to deliver
\* to Start, or after
PushTime == IF trigger = "none" THEN "early" ELSE "late"

\* the task of HTTP listener i runs ListenAndServe: the server is already
\* shut down (ErrServerClosed), the bind fails, or it serves
HTTPListenAndServe(i) ==
    /\ Running
    /\ httpTask[i] = "run"
    /\ IF httpShut[i]
          THEN /\ httpTask' = [httpTask EXCEPT ![i] = "done"]
               /\ httpEnd' = [httpEnd EXCEPT ![i] = "closed"]
               /\ httpPush' = httpPush
          ELSE IF Reachable(HTTPServers[i])
          THEN /\ httpTask' = [httpTask EXCEPT ![i] = "send"]
               /\ httpEnd' = [httpEnd EXCEPT ![i] = "bind"]
               /\ httpPush' = [httpPush EXCEPT ![i] = PushTime]
          ELSE /\ httpTask' = [httpTask EXCEPT ![i] = "serving"]
               /\ UNCHANGED <<httpEnd, httpPush>>
    /\ UNCHANGED <<regVars, startVars, grpcTaskVars, srvVars, reqVars, chanVars,
                   stopVars, countVars, envVars, isReady, crashed, probeVars>>

\* ListenAndServe returns ErrServerClosed after Shutdown: the task ends
HTTPServeClosed(i) ==
    /\ Running
    /\ httpTask[i] = "serving"
    /\ httpShut[i]
    /\ httpTask' = [httpTask EXCEPT ![i] = "done"]
    /\ httpEnd' = [httpEnd EXCEPT ![i] = "closed"]
    /\ httpPush' = httpPush
    /\ UNCHANGED <<regVars, startVars, grpcTaskVars, srvVars, reqVars, chanVars,
                   stopVars, countVars, envVars, isReady, crashed, probeVars>>

\* HTTPServeFails with the error of a failed Serve only logged
HTTPServeFails_Dropped(i) ==
    /\ Running
    /\ httpTask[i] = "serving"
    /\ ~httpShut[i]
    /\ httpTask' = [httpTask EXCEPT ![i] = "done"]
    /\ httpEnd' = [httpEnd EXCEPT ![i] = "serve"]
    /\ httpPush' = httpPush
    /\ UNCHANGED <<regVars, startVars, grpcTaskVars, srvVars, reqVars, chanVars,
                   stopVars, countVars, envVars, isReady, crashed, probeVars>>

\* ListenAndServe returns another error while serving: the task goes on
\* to report it
HTTPServeFails(i) ==
    /\ Running
    /\ httpTask[i] = "serving"
    /\ ~httpShut[i]
    /\ httpTask' = [httpTask EXCEPT ![i] = "send"]
    /\ httpEnd' = [httpEnd EXCEPT ![i] = "serve"]
    /\ httpPush' = [httpPush EXCEPT ![i] = PushTime]
    /\ UNCHANGED <<regVars, startVars, grpcTaskVars, srvVars, reqVars, chanVars,
                   stopVars, countVars, envVars, isReady, crashed, probeVars>>

\* the task of gRPC listener i runs net.Listen and Serve: the bind fails,
\* the server is already stopped (ErrServerStopped), or it serves
GRPCListenAndServe(i) ==
    /\ Running
    /\ grpcTask[i] = "run"
    /\ IF Reachable(GRPCServers[i])
          THEN /\ grpcTask' = [grpcTask EXCEPT ![i] = "send"]
               /\ grpcEnd' = [grpcEnd EXCEPT ![i] = "bind"]
               /\ grpcPush' = [grpcPush EXCEPT ![i] = PushTime]
          ELSE IF grpcStopped[i]
          THEN /\ grpcTask' = [grpcTask EXCEPT ![i] = "done"]
               /\ grpcEnd' = [grpcEnd EXCEPT ![i] = "closed"]
               /\ grpcPush' = grpcPush
          ELSE /\ grpcTask' = [grpcTask EXCEPT ![i] = "serving"]
               /\ UNCHANGED <<grpcEnd, grpcPush>>
    /\ UNCHANGED <<regVars, startVars, httpTaskVars, srvVars, reqVars, chanVars,
                   stopVars, countVars, envVars, isReady, crashed, probeVars>>

\* Serve returns ErrServerStopped after GracefulStop: the task ends
GRPCServeStopped(i) ==
    /\ Running
    /\ grpcTask[i] = "serving"
    /\ grpcStopped[i]
    /\ grpcTask' = [grpcTask EXCEPT ![i] = "done"]
    /\ grpcEnd' = [grpcEnd EXCEPT ![i] = "closed"]
    /\ grpcPush' = grpcPush
    /\ UNCHANGED <<regVars, startVars, httpTaskVars, srvVars, reqVars, chanVars,
                   stopVars, countVars, envVars, isReady, crashed, probeVars>>

\* Serve returns another error while serving: the task goes on to report it
GRPCServeFails(i) ==
    /\ Running
    /\ grpcTask[i] = "serving"
    /\ ~grpcStopped[i]
    /\ grpcTask' = [grpcTask EXCEPT ![i] = "send"]
    /\ grpcEnd' = [grpcEnd EXCEPT ![i] = "serve"]
    /\ grpcPush' = [grpcPush EXCEPT ![i] = PushTime]
    /\ UNCHANGED <<regVars, startVars, httpTaskVars, srvVars, reqVars, chanVars,
                   stopVars, countVars, envVars, isReady, crashed, probeVars>>

\* outcome of `s.ErrChan <- err` for a task at its send: a panic when the
\* queue is closed, a handoff when the sink is receiving, else it blocks
SendOutcome == IF errChanClosed THEN "panic"
               ELSE IF drainPc = "running" THEN "handoff"
               ELSE "blocked"

\* the send of HTTP task i completes or panics
HTTPSend(i) ==
    /\ Running
    /\ httpTask[i] = "send"
    /\ SendOutcome # "blocked"
    /\ IF SendOutcome = "panic"
          THEN /\ httpTask' = [httpTask EXCEPT ![i] = "panic"]
               /\ httpPush' = httpPush
               /\ crashed' = TRUE
               /\ observed' = observed
          ELSE /\ httpTask' = [httpTask EXCEPT ![i] = "done"]
               /\ httpPush' = [httpPush EXCEPT ![i] = "sent"]
               /\ crashed' = crashed
               /\ observed' = observed + 1
    /\ UNCHANGED <<regVars, startVars, httpEnd, grpcTaskVars, srvVars,
                   reqVars, errChanClosed, drainPc, stopVars, countVars,
                   envVars, isReady, probeVars>>

\* the send of gRPC task i completes or panics
GRPCSend(i) ==
    /\ Running
    /\ grpcTask[i] = "send"
    /\ SendOutcome # "blocked"
    /\ IF SendOutcome = "panic"
          THEN /\ grpcTask' = [grpcTask EXCEPT ![i] = "panic"]
               /\ grpcPush' = grpcPush
               /\ crashed' = TRUE
               /\ observed' = observed
          ELSE /\ grpcTask' = [grpcTask EXCEPT ![i] = "done"]
               /\ grpcPush' = [grpcPush EXCEPT ![i] = "sent"]
               /\ crashed' = crashed
               /\ observed' = observed + 1
    /\ UNCHANGED <<regVars, startVars, grpcEnd, httpTaskVars, srvVars,
                   reqVars, errChanClosed, drainPc, stopVars, countVars,
                   envVars, isReady, probeVars>>

\* the fan-in sink: `for err := range s.ErrChan` ends when the queue is closed
DrainExit ==
    /\ Running
    /\ drainPc = "running"
    /\ errChanClosed
    /\ drainPc' = "done"
    /\ UNCHANGED <<regVars, startVars, taskVars, srvVars, reqVars,
                   errChanClosed, observed, stopVars, countVars, envVars,
                   isReady, crashed, probeVars>>

\* a client request reaches HTTP listener i, or its request in flight ends
HTTPRequest(i) ==
    /\ Running
    /\ \/ ~httpReq[i] /\ httpTask[i] = "serving" /\ ~httpShut[i]
       \/ httpReq[i]
    /\ httpReq' = [httpReq EXCEPT ![i] = ~httpReq[i]]
    /\ UNCHANGED <<regVars, startVars, taskVars, srvVars, grpcReq, chanVars,
                   stopVars, countVars, envVars, isReady, crashed, probeVars>>

\* a client RPC reaches gRPC listener i, or its RPC in flight ends
GRPCRequest(i) ==
    /\ Running
    /\ \/ ~grpcReq[i] /\ grpcTask[i] = "serving" /\ ~grpcStopped[i]
       \/ grpcReq[i]
    /\ grpcReq' = [grpcReq EXCEPT ![i] = ~grpcReq[i]]
    /\ UNCHANGED <<regVars, startVars, taskVars, srvVars, httpReq, chanVars,
                   stopVars, countVars, envVars, isReady, crashed, probeVars>>

(* ------------------------------- Stop ---------------------------------- *)

\* where Stop goes once its HTTP loop is at index i: the next HTTP server,
\* the pool when there is one, else the close of the error queue
AfterHTTP(i) == IF i < Len(HTTPServers) THEN <<"http", i + 1>>
                ELSE IF DB THEN <<"db", 0>>
                ELSE <<"close", 0>>

\* AfterGRPC with the data store closed ahead of the HTTP servers
AfterGRPC_DBFirst(i) == IF i < Len(GRPCServers) THEN <<"grpc", i + 1>>
                        ELSE IF DB THEN <<"db", 0>>
                        ELSE AfterHTTP(0)

\* where Stop goes once its gRPC loop is at index i
AfterGRPC(i) == IF i < Len(GRPCServers) THEN <<"grpc", i + 1>>
                ELSE AfterHTTP(0)

\* where Stop goes once the dependents in left remain to be closed
AfterSubs(left) == IF left # {} THEN <<"subs", 0>> ELSE AfterGRPC(0)

\* the caller calls Stop: shutdownCtx is created and the loop over the
\* dependents begins
StopBegin ==
    /\ Running
    /\ stopPc \in {"idle", "done"}
    /\ startPc \in {"idle", "returned"}
    /\ stopCalls' = stopCalls + 1
    /\ stopNormal' = IF stopCalls = 0 THEN startRet = "nil" ELSE stopNormal
    /\ stopSubsLeft' = SubServices
    /\ stopLog' = <<>>
    /\ deadline' = FALSE
    /\ stopErrs' = NoErrs
    /\ stopPc' = AfterSubs(SubServices)[1]
    /\ stopIdx' = AfterSubs(SubServices)[2]
    /\ UNCHANGED <<regVars, startVars, taskVars, srvVars, reqVars, chanVars,
                   countVars, envVars, isReady, crashed, probeVars>>

\* shutdownCtx expires (30 seconds after Stop began). Only
\* Shutdown's wait reads the context, so the expiry is taken where a wait
\* with a request in flight can observe it; an earlier expiry has the same
\* effect as one at that point.
DeadlineExpires ==
    /\ Running
    /\ stopPc = "httpWait"
    /\ httpReq[stopIdx]
    /\ ~deadline
    /\ deadline' = TRUE
    /\ UNCHANGED <<regVars, startVars, taskVars, srvVars, reqVars, chanVars,
                   stopPc, stopSubsLeft, stopIdx, stopCalls, stopNormal, stopErrs,
                   stopLog, countVars, envVars, isReady, crashed, probeVars>>

\* StopCloseSub with Stop returning at the first Close that fails
StopCloseSub_AbortOnError(n, ok) ==
    /\ Running
    /\ stopPc = "subs"
    /\ n \in stopSubsLeft
    /\ subCloses' = [subCloses EXCEPT ![n] = @ + 1]
    /\ stopSubsLeft' = stopSubsLeft \ {n}
    /\ stopLog' = Append(stopLog, "sub")
    /\ IF ok THEN /\ stopErrs' = stopErrs
                  /\ stopPc' = AfterSubs(stopSubsLeft \ {n})[1]
                  /\ stopIdx' = AfterSubs(stopSubsLeft \ {n})[2]
             ELSE /\ stopErrs' = [stopErrs EXCEPT !.subs = @ \cup {n}]
                  /\ stopPc' = "done"
                  /\ stopIdx' = 0
    /\ UNCHANGED <<regVars, startVars, taskVars, srvVars, reqVars, chanVars,
                   stopCalls, stopNormal, deadline, grpcStops, grpcStarts, httpStops, httpStarts,
                   dbCloses, envVars, isReady, crashed, probeVars>>

\* one round of the loop over s.SubServices: service.Close() returns nil
\* (ok) or an error, which is logged, and the loop goes on
StopCloseSub(n, ok) ==
    /\ Running
    /\ stopPc = "subs"
    /\ n \in stopSubsLeft
    /\ subCloses' = [subCloses EXCEPT ![n] = @ + 1]
    /\ stopSubsLeft' = stopSubsLeft \ {n}
    /\ stopLog' = Append(stopLog, "sub")
    /\ stopErrs' = IF ok THEN stopErrs
                      ELSE [stopErrs EXCEPT !.subs = @ \cup {n}]
    /\ stopPc' = AfterSubs(stopSubsLeft \ {n})[1]
    /\ stopIdx' = AfterSubs(stopSubsLeft \ {n})[2]
    /\ UNCHANGED <<regVars, startVars, taskVars, srvVars, reqVars, chanVars,
                   stopCalls, stopNormal, deadline, grpcStops, grpcStarts, httpStops, httpStarts,
                   dbCloses, envVars, isReady, crashed, probeVars>>

\* GracefulStop of gRPC server stopIdx closes its listener ...
StopGRPCBegin ==
    /\ Running
    /\ stopPc = "grpc"
    /\ grpcStopped' = [grpcStopped EXCEPT ![stopIdx] = TRUE]
    /\ stopPc' = "grpcWait"
    /\ UNCHANGED <<regVars, startVars, taskVars, httpShut, reqVars, chanVars,
                   stopSubsLeft, stopIdx, stopCalls, stopNormal, stopErrs, stopLog,
                   deadline, countVars, envVars, isReady, crashed, probeVars>>

\* ... and returns once no RPC is in flight
StopGRPCWait ==
    /\ Running
    /\ stopPc = "grpcWait"
    /\ ~grpcReq[stopIdx]
    /\ grpcStops' = [grpcStops EXCEPT ![stopIdx] = @ + 1]
    /\ UNCHANGED grpcStarts
    /\ stopLog' = Append(stopLog, "grpc")
    /\ stopPc' = AfterGRPC(stopIdx)[1]
    /\ stopIdx' = AfterGRPC(stopIdx)[2]
    /\ UNCHANGED <<regVars, startVars, taskVars, srvVars, reqVars, chanVars,
                   stopSubsLeft, stopCalls, stopNormal, stopErrs, deadline, subCloses,
                   httpStops, httpStarts, dbCloses, envVars, isReady, crashed, probeVars>>

\* Shutdown(shutdownCtx) of HTTP server stopIdx closes its listener ...
StopHTTPBegin ==
    /\ Running
    /\ stopPc = "http"
    /\ httpShut' = [httpShut EXCEPT ![stopIdx] = TRUE]
    /\ stopPc' = "httpWait"
    /\ UNCHANGED <<regVars, startVars, taskVars, grpcStopped, reqVars,
                   chanVars, stopSubsLeft, stopIdx, stopCalls, stopNormal, stopErrs,
                   stopLog, deadline, countVars, envVars, isReady, crashed,
                   probeVars>>

\* ... and returns nil once no request is in flight, or the error of
\* shutdownCtx once it has expired; the error is logged and the loop goes on
StopHTTPWait ==
    /\ Running
    /\ stopPc = "httpWait"
    /\ ~httpReq[stopIdx] \/ deadline
    /\ httpStops' = [httpStops EXCEPT ![stopIdx] = @ + 1]
    /\ UNCHANGED httpStarts
    /\ stopLog' = Append(stopLog, "http")
    /\ stopErrs' = IF httpReq[stopIdx]
                      THEN [stopErrs EXCEPT !.http = @ \cup {stopIdx}]
                      ELSE stopErrs
    /\ stopPc' = AfterHTTP(stopIdx)[1]
    /\ stopIdx' = AfterHTTP(stopIdx)[2]
    /\ UNCHANGED <<regVars, startVars, taskVars, srvVars, reqVars, chanVars,
                   stopSubsLeft, stopCalls, stopNormal, deadline, subCloses,
                   grpcStops, grpcStarts, dbCloses, envVars, isReady, crashed, probeVars>>

\* StopCloseDB with the pool closed a second time on the way out
StopCloseDB_Twice ==
    /\ Running
    /\ stopPc = "db"
    /\ dbCloses' = dbCloses + 2
    /\ stopLog' = Append(stopLog, "db")
    /\ stopPc' = "close"
    /\ UNCHANGED <<regVars, startVars, taskVars, srvVars, reqVars, chanVars,
                   stopSubsLeft, stopIdx, stopCalls, stopNormal, stopErrs, deadline,
                   subCloses, grpcStops, grpcStarts, httpStops, httpStarts, envVars, isReady, crashed,
                   probeVars>>

\* s.DB.Close()
StopCloseDB ==
    /\ Running
    /\ stopPc = "db"
    /\ dbCloses' = dbCloses + 1
    /\ stopLog' = Append(stopLog, "db")
    /\ stopPc' = "close"
    /\ UNCHANGED <<regVars, startVars, taskVars, srvVars, reqVars, chanVars,
                   stopSubsLeft, stopIdx, stopCalls, stopNormal, stopErrs, deadline,
                   subCloses, grpcStops, grpcStarts, httpStops, httpStarts, envVars, isReady, crashed,
                   probeVars>>

\* close(s.ErrChan): the close of a closed channel panics
StopCloseErrChan ==
    /\ Running
    /\ stopPc = "close"
    /\ IF errChanClosed
          THEN /\ crashed' = TRUE
               /\ UNCHANGED <<errChanClosed, stopPc, stopLog, probeVars>>
          ELSE /\ errChanClosed' = TRUE
               /\ stopLog' = Append(stopLog, "chan")
               /\ stopPc' = "done"
               /\ crashed' = crashed
    /\ UNCHANGED <<regVars, startVars, taskVars, srvVars, reqVars, drainPc,
                   observed, stopSubsLeft, stopIdx, stopCalls, stopNormal, stopErrs,
                   deadline, countVars, envVars, isReady, probeVars>>

(* ----------------------- reachability checks --------------------------- *)

\* grpc.NewClient(address, ...) builds a client without connecting: it
\* fails only for a target it cannot parse
ValidTarget(a) == a \in Addrs

\* checkGRPCServerUp: false at the first server whose client cannot be built
checkGRPCServerUp == \A i \in DOMAIN GRPCServers : ValidTarget(GRPCServers[i])

\* one round of the loop of checkHTTPServerUp: net.DialTimeout succeeds
DialSucceeds(a) == Reachable(a)

\* s.DB.Ping succeeds: the store is up and the pool has not been closed
PingSucceeds == dbUp /\ dbCloses = 0

\* checkDBAlive without the Ping
checkDBAlive_NoPing == TRUE

\* checkDBAlive: true without a pool, else whether Ping succeeds
checkDBAlive == IF ~DB THEN TRUE ELSE PingSucceeds

\* the data store comes up or goes down
DBFlip ==
    /\ Running
    /\ DB
    /\ dbUp' = ~dbUp
    /\ UNCHANGED <<regVars, startVars, taskVars, srvVars, reqVars, chanVars,
                   stopVars, countVars, trigger, foreign, isReady, crashed,
                   probeVars>>

(* ------------------------------ Ready ---------------------------------- *)

\* where a probe goes once its loop over s.HTTPServers is at index i
AfterDial(i, last) == IF i < Len(HTTPServers) THEN <<"http", i + 1>>
                      ELSE <<last, 0>>

\* SubServicesReady as true when some dependent answers ready
SubServicesReady_Any(ans) == \E n \in DOMAIN ans : ans[n]

\* the loop over s.SubServices of Ready(), given each dependent's answer
SubServicesReady(ans) == \A n \in DOMAIN ans : ans[n]

\* ReadyResult with the dependents' answers left out
ReadyResult_NoSubs(subsReady, grpcReady, httpReady, dbReady) ==
    grpcReady /\ httpReady /\ dbReady

\* the value Ready() swaps into s.isReady
ReadyResult(subsReady, grpcReady, httpReady, dbReady) ==
    subsReady /\ grpcReady /\ httpReady /\ dbReady

\* the last two entries of a log
LastTwo(log) == IF Len(log) > 2 THEN Tail(log) ELSE log

\* the embedding application calls Ready() itself
ReadyCall ==
    /\ Running
    /\ sweepPc["call"] = "idle"
    /\ sweepPc' = [sweepPc EXCEPT !["call"] = "subs"]
    /\ UNCHANGED <<regVars, startVars, taskVars, srvVars, reqVars, chanVars,
                   stopVars, countVars, envVars, isReady, crashed, sweepIdx,
                   areSubServicesReady, sweepNotReady, sweepLog, aliveVars>>

\* ReadySubs with the dependents' verdict stored in s.isReady straight away
ReadySubs_StoresEarly(k) ==
    /\ Running
    /\ sweepPc[k] = "subs"
    /\ \E ans \in [SubServices -> BOOLEAN] :
          /\ areSubServicesReady' =
                [areSubServicesReady EXCEPT ![k] = SubServicesReady(ans)]
          /\ sweepNotReady' =
                [sweepNotReady EXCEPT ![k] = \E n \in SubServices : ~ans[n]]
          /\ isReady' = SubServicesReady(ans)
    /\ sweepPc' = [sweepPc EXCEPT ![k] = AfterDial(0, "store")[1]]
    /\ sweepIdx' = [sweepIdx EXCEPT ![k] = AfterDial(0, "store")[2]]
    /\ UNCHANGED <<regVars, startVars, taskVars, srvVars, reqVars, chanVars,
                   stopVars, countVars, envVars, crashed, sweepLog, aliveVars>>

\* sweep k asks every dependent whether it is ready; ans is what they answer
ReadySubs(k) ==
    /\ Running
    /\ sweepPc[k] = "subs"
    /\ \E ans \in [SubServices -> BOOLEAN] :
          /\ areSubServicesReady' =
                [areSubServicesReady EXCEPT ![k] = SubServicesReady(ans)]
          /\ sweepNotReady' =
                [sweepNotReady EXCEPT ![k] = \E n \in SubServices : ~ans[n]]
    /\ sweepPc' = [sweepPc EXCEPT ![k] = AfterDial(0, "store")[1]]
    /\ sweepIdx' = [sweepIdx EXCEPT ![k] = AfterDial(0, "store")[2]]
    /\ UNCHANGED <<regVars, startVars, taskVars, srvVars, reqVars, chanVars,
                   stopVars, countVars, envVars, isReady, crashed, sweepLog,
                   aliveVars>>

\* sweep k in checkHTTPServerUp dials the address: a dial that succeeds
\* ends the loop, a dial that fails is logged
ReadyDial(k) ==
    /\ Running
    /\ sweepPc[k] = "http"
    /\ IF DialSucceeds(HTTPServers[sweepIdx[k]])
          THEN /\ sweepPc' = [sweepPc EXCEPT ![k] = AfterDial(sweepIdx[k], "store")[1]]
               /\ sweepIdx' = [sweepIdx EXCEPT ![k] = AfterDial(sweepIdx[k], "store")[2]]
          ELSE /\ sweepPc' = [sweepPc EXCEPT ![k] = "retry"]
               /\ sweepIdx' = sweepIdx
    /\ UNCHANGED <<regVars, startVars, taskVars, srvVars, reqVars, chanVars,
                   stopVars, countVars, envVars, isReady, crashed,
                   areSubServicesReady, sweepNotReady, sweepLog, aliveVars>>

\* sweep k in checkHTTPServerUp: `for err != nil` sends it to the next dial
ReadyRetry(k) ==
    /\ Running
    /\ sweepPc[k] = "retry"
    /\ sweepPc' = [sweepPc EXCEPT ![k] = "http"]
    /\ UNCHANGED <<regVars, startVars, taskVars, srvVars, reqVars, chanVars,
                   stopVars, countVars, envVars, isReady, crashed, sweepIdx,
                   areSubServicesReady, sweepNotReady, sweepLog, aliveVars>>

\* sweep k pings the data store and swaps the result into s.isReady
ReadyStore(k) ==
    /\ Running
    /\ sweepPc[k] = "store"
    /\ isReady' = ReadyResult(areSubServicesReady[k],
                              GRPCServers = <<>> \/ checkGRPCServerUp,
                              TRUE,
                              checkDBAlive)
    /\ sweepLog' = LastTwo(Append(sweepLog, [notReady |-> sweepNotReady[k],
                                             dbAlive |-> PingSucceeds]))
    /\ sweepPc' = [sweepPc EXCEPT ![k] = "idle"]
    /\ areSubServicesReady' = [areSubServicesReady EXCEPT ![k] = TRUE]
    /\ sweepNotReady' = [sweepNotReady EXCEPT ![k] = FALSE]
    /\ UNCHANGED <<regVars, startVars, taskVars, srvVars, reqVars, chanVars,
                   stopVars, countVars, envVars, crashed, sweepIdx, aliveVars>>

(* ----------------------------- IsAlive --------------------------------- *)

\* the value IsAlive() returns
AliveResult(grpcAlive, httpAlive, dbAlive) ==
    IF grpcAlive /\ httpAlive /\ dbAlive THEN "true" ELSE "false"

\* IsAlive() is called: the gRPC check, then the loop over s.HTTPServers
AliveCall ==
    /\ Running
    /\ alivePc = "idle"
    /\ alivePc' = AfterDial(0, "db")[1]
    /\ aliveIdx' = AfterDial(0, "db")[2]
    /\ aliveRet' = "none"
    /\ aliveConflict' = AddressConflict
    /\ UNCHANGED <<regVars, startVars, taskVars, srvVars, reqVars, chanVars,
                   stopVars, countVars, envVars, isReady, crashed, sweepVars>>

\* IsAlive() in checkHTTPServerUp dials the address: a dial that succeeds
\* ends the loop, a dial that fails is logged
AliveDial ==
    /\ Running
    /\ alivePc = "http"
    /\ IF DialSucceeds(HTTPServers[aliveIdx])
          THEN /\ alivePc' = AfterDial(aliveIdx, "db")[1]
               /\ aliveIdx' = AfterDial(aliveIdx, "db")[2]
          ELSE /\ alivePc' = "retry"
               /\ aliveIdx' = aliveIdx
    /\ UNCHANGED <<regVars, startVars, taskVars, srvVars, reqVars, chanVars,
                   stopVars, countVars, envVars, isReady, crashed, sweepVars,
                   aliveRet, aliveConflict>>

\* IsAlive() in checkHTTPServerUp: `for err != nil` sends it to the next dial
AliveRetry ==
    /\ Running
    /\ alivePc = "retry"
    /\ alivePc' = "http"
    /\ UNCHANGED <<regVars, startVars, taskVars, srvVars, reqVars, chanVars,
                   stopVars, countVars, envVars, isReady, crashed, sweepVars,
                   aliveIdx, aliveRet, aliveConflict>>

\* AliveReturn with the result also swapped into s.isReady
AliveReturn_Swaps ==
    /\ Running
    /\ alivePc = "db"
    /\ aliveRet' = AliveResult(GRPCServers = <<>> \/ checkGRPCServerUp,
                               TRUE,
                               checkDBAlive)
    /\ isReady' = (aliveRet' = "true")
    /\ alivePc' = "idle"
    /\ UNCHANGED <<regVars, startVars, taskVars, srvVars, reqVars, chanVars,
                   stopVars, countVars, envVars, crashed, sweepVars,
                   aliveIdx, aliveConflict>>

\* IsAlive() checks the data store and returns
AliveReturn ==
    /\ Running
    /\ alivePc = "db"
    /\ aliveRet' = AliveResult(GRPCServers = <<>> \/ checkGRPCServerUp,
                               TRUE,
                               checkDBAlive)
    /\ alivePc' = "idle"
    /\ UNCHANGED <<regVars, startVars, taskVars, srvVars, reqVars, chanVars,
                   stopVars, countVars, envVars, isReady, crashed, sweepVars,
                   aliveIdx, aliveConflict>>

(* --------------------------- health status ----------------------------- *)

\* the services map of GetHealthStatus: the entry of the data store, when
\* there is one, says whether it answers a Ping
HealthServices ==
    IF DB THEN {<<"database", IF checkDBAlive THEN "healthy" ELSE "unhealthy">>}
          ELSE {}

\* GetHealthStatus(): the status is "ok" whatever the services map says
\* (Timestamp and Uptime are clock readings and are left out)
GetHealthStatus ==
    /\ Running
    /\ healthStatus' = [Status |-> "ok", Services |-> HealthServices]
    /\ UNCHANGED <<svc, GRPCServers, HTTPServers, DB, SubServices, newVars,
                   addVars, areAlive, liveAnswers, liveResponse, startVars,
                   taskVars, srvVars, reqVars, chanVars, stopVars, countVars,
                   envVars, isReady, crashed, probeVars>>

(* --------------------------- health handler ---------------------------- *)

\* NewHealthHandler(areAlive...): a handler with n checkers
NewHealthHandler(n) ==
    /\ areAlive = <<>>
    /\ liveResponse = NoResponse
    /\ areAlive' = [i \in 1..n |-> i]
    /\ UNCHANGED <<svc, GRPCServers, HTTPServers, DB, SubServices, newVars,
                   addVars, liveAnswers, liveResponse, healthStatus, startVars,
                   taskVars,
                   srvVars, reqVars, chanVars, stopVars, countVars, envVars,
                   isReady, crashed, probeVars>>

\* AnswerWithJSONError(w, code): the status is code and the body handed to
\* w.Write is the errorResponse of that code, which always marshals; wr is
\* whether the Write succeeds (after a failed one the status is already sent)
AnswerWithJSONError(code, wr) ==
    [status |-> code,
     ErrorCode |-> code,
     ErrorDetails |-> "error during request processing",
     written |-> wr]

\* alive answering 200 as soon as one checker returns true
alive_AnyAlive(ans, wr) ==
    IF ans = <<>> \/ \E i \in DOMAIN ans : ans[i]
       THEN [status |-> 200, ErrorCode |-> 0, ErrorDetails |-> "",
             written |-> FALSE]
       ELSE AnswerWithJSONError(503, wr)

\* alive(areAlive): the checkers are called in order; at the first that
\* returns false the answer is AnswerWithJSONError(w, 503), and after the
\* last WriteHeader(200)
alive(ans, wr) ==
    IF \E i \in DOMAIN ans : ~ans[i]
       THEN AnswerWithJSONError(503, wr)
       ELSE [status |-> 200, ErrorCode |-> 0, ErrorDetails |-> "",
             written |-> FALSE]

\* a GET /health/live request: ans is what each checker returns when called
LiveRequest(ans, wr) ==
    /\ liveAnswers' = ans
    /\ liveResponse' = alive(ans, wr)
    /\ UNCHANGED <<svc, GRPCServers, HTTPServers, DB, SubServices, newVars,
                   addVars, areAlive, healthStatus, startVars, taskVars, srvVars, reqVars,
                   chanVars, stopVars, countVars, envVars, isReady, crashed,
                   probeVars>>

(* ------------------------------ Next ----------------------------------- *)

\* the lists of options the lifecycle is explored with: no more than
\* MaxGRPC gRPC servers, MaxHTTP HTTP servers and one data store
LifeOptions ==
    {opts \in OptionLists(MaxOptions) :
        /\ CountKind(opts, "grpc") <= MaxGRPC
        /\ CountKind(opts, "http") <= MaxHTTP
        /\ CountKind(opts, "db") <= 1}

\* construction of the Service and its registry from one of the lists
Configure(lists) ==
    \/ \E opts \in lists : NewCall(opts)
    \/ \E a \in GRPCAddrs : ApplyGRPCServer(a)
    \/ \E a \in HTTPAddrs : ApplyTechHTTPServer(a)
    \/ \E ok \in BOOLEAN : ApplyDB(ok)
    \/ NewReturn
    \/ \E n \in SubNames : RegisterSubService(n)

\* the listener tasks Start launches
Tasks ==
    \/ \E i \in DOMAIN HTTPServers : HTTPListenAndServe(i)
    \/ \E i \in DOMAIN HTTPServers : HTTPServeClosed(i)
    \/ \E i \in DOMAIN HTTPServers : HTTPServeFails(i)
    \/ \E i \in DOMAIN HTTPServers : HTTPSend(i)
    \/ \E i \in DOMAIN GRPCServers : GRPCListenAndServe(i)
    \/ \E i \in DOMAIN GRPCServers : GRPCServeStopped(i)
    \/ \E i \in DOMAIN GRPCServers : GRPCServeFails(i)
    \/ \E i \in DOMAIN GRPCServers : GRPCSend(i)

\* the lifecycle: construction, Start with its tasks and its background
\* sweep, the signal, and Stop (with every dependent closing without error:
\* Stop only logs what Close returns)
Next ==
    \/ Configure(LifeOptions)
    \/ \E a \in Addrs : ForeignBind(a)
    \/ StartLaunch
    \/ \E t \in {"sig", "err"} : Trigger(t)
    \/ StartWaitReturn
    \/ StartFinish
    \/ Tasks
    \/ \E i \in DOMAIN HTTPServers : HTTPRequest(i)
    \/ \E i \in DOMAIN GRPCServers : GRPCRequest(i)
    \/ DrainExit
    \/ ReadySubs("bg")
    \/ ReadyDial("bg")
    \/ ReadyRetry("bg")
    \/ ReadyStore("bg")
    \/ StopBegin
    \/ DeadlineExpires
    \/ \E n \in SubNames : StopCloseSub(n, TRUE)
    \/ StopGRPCBegin
    \/ StopGRPCWait
    \/ StopHTTPBegin
    \/ StopHTTPWait
    \/ StopCloseDB
    \/ StopCloseErrChan

Spec == Init /\ [][Next]_vars

\* the probes: construction, Start with its tasks, and Ready() and
\* IsAlive() called at any moment
ProbeNext ==
    \/ Configure(LifeOptions)
    \/ \E a \in HTTPAddrs : ForeignBind(a)
    \/ StartLaunch
    \/ \E i \in DOMAIN HTTPServers : HTTPListenAndServe(i)
    \/ \E i \in DOMAIN HTTPServers : HTTPServeFails(i)
    \/ DBFlip
    \/ ReadyCall
    \/ \E k \in Sweepers : ReadySubs(k)
    \/ \E k \in Sweepers : ReadyDial(k)
    \/ \E k \in Sweepers : ReadyRetry(k)
    \/ \E k \in Sweepers : ReadyStore(k)
    \/ AliveCall
    \/ AliveDial
    \/ AliveRetry
    \/ AliveReturn

\* (no probe dials a gRPC address, so the gRPC tasks are left out)
ProbeSpec == Init /\ [][ProbeNext]_vars

\* configuration: New with any list of options, then the calls that extend
\* the registry before Start
ConfigNext ==
    \/ Configure(OptionLists(MaxOptions))
    \/ \E name \in ServerNames : AddGRPCService(name)
    \/ \E a \in HTTPAddrs : AddHTTPServer(a)

ConfigSpec == Init /\ [][ConfigNext]_vars

\* the health handler: it is built with some checkers and answers requests
HealthNext ==
    \/ \E n \in 1..MaxCheckers : NewHealthHandler(n)
    \/ \E ans \in [DOMAIN areAlive -> BOOLEAN], wr \in BOOLEAN :
          LiveRequest(ans, wr)

HealthSpec == Init /\ [][HealthNext]_vars

\* the teardown with its failures: construction, Start with listeners that
\* serve requests, the signal, and a Stop whose Close and Shutdown calls may
\* fail
StopNext ==
    \/ Configure(LifeOptions)
    \/ StartLaunch
    \/ Trigger("sig")
    \/ StartWaitReturn
    \/ StartFinish
    \/ \E i \in DOMAIN HTTPServers : HTTPListenAndServe(i)
    \/ \E i \in DOMAIN HTTPServers : HTTPServeClosed(i)
    \/ \E i \in DOMAIN GRPCServers : GRPCListenAndServe(i)
    \/ \E i \in DOMAIN GRPCServers : GRPCServeStopped(i)
    \/ \E i \in DOMAIN HTTPServers : HTTPRequest(i)
    \/ \E i \in DOMAIN GRPCServers : GRPCRequest(i)
    \/ DrainExit
    \/ StopBegin
    \/ DeadlineExpires
    \/ \E n \in SubNames, ok \in BOOLEAN : StopCloseSub(n, ok)
    \/ StopGRPCBegin
    \/ StopGRPCWait
    \/ StopHTTPBegin
    \/ StopHTTPWait
    \/ StopCloseDB
    \/ StopCloseErrChan

StopSpec == Init /\ [][StopNext]_vars

\* one Start and the teardown of a registry the application has extended:
\* construction, AddHTTPServer, Start with its tasks, the signal, and Stop
OnceNext ==
    \/ Configure(LifeOptions)
    \/ \E a \in HTTPAddrs : AddHTTPServer(a)
    \/ StartLaunch
    \/ \E t \in {"sig", "err"} : Trigger(t)
    \/ StartWaitReturn
    \/ StartFinish
    \/ Tasks
    \/ \E i \in DOMAIN HTTPServers : HTTPRequest(i)
    \/ \E i \in DOMAIN GRPCServers : GRPCRequest(i)
    \/ DrainExit
    \/ StopBegin
    \/ DeadlineExpires
    \/ \E n \in SubNames : StopCloseSub(n, TRUE)
    \/ StopGRPCBegin
    \/ StopGRPCWait
    \/ StopHTTPBegin
    \/ StopHTTPWait
    \/ StopCloseDB
    \/ StopCloseErrChan

OnceSpec == Init /\ [][OnceNext]_vars

\* the snapshot and the operations around it: construction,
\* AddGRPCService, Start with its HTTP tasks, the signal, Stop, and Ready(),
\* IsAlive() and GetHealthStatus() called at any moment (the caller's sweep
\* runs the code of the sweep Start launches and stands for both;
\* AddGRPCService finds its server or, with none registered, does not)
SnapshotNext ==
    \/ Configure(LifeOptions)
    \/ \E name \in GRPCAddrs : AddGRPCService(name)
    \/ StartLaunch
    \/ Trigger("sig")
    \/ StartWaitReturn
    \/ StartFinish
    \/ \E i \in DOMAIN HTTPServers : HTTPListenAndServe(i)
    \/ ReadyCall
    \/ ReadySubs("call")
    \/ ReadyDial("call")
    \/ ReadyRetry("call")
    \/ ReadyStore("call")
    \/ AliveCall
    \/ AliveDial
    \/ AliveRetry
    \/ AliveReturn
    \/ GetHealthStatus
    \/ StopBegin
    \/ \E n \in SubNames : StopCloseSub(n, TRUE)
    \/ StopGRPCBegin
    \/ StopGRPCWait
    \/ StopHTTPBegin
    \/ StopHTTPWait
    \/ StopCloseDB
    \/ StopCloseErrChan

SnapshotSpec == Init /\ [][SnapshotNext]_vars

(* ----------------------------- fairness -------------------------------- *)

\* what the Go scheduler and the clock guarantee: a goroutine that can take
\* its next step takes it, and shutdownCtx expires. Nothing obliges the
\* caller to call Start or Stop, a signal to arrive, a listener to fail or a
\* request in flight to finish.
LifeFairness ==
    /\ WF_vars(StartWaitReturn)
    /\ WF_vars(StartFinish)
    /\ WF_vars(DrainExit)
    /\ WF_vars(DeadlineExpires)
    /\ \A n \in SubNames : WF_vars(\E ok \in BOOLEAN : StopCloseSub(n, ok))
    /\ WF_vars(StopGRPCBegin)
    /\ WF_vars(StopGRPCWait)
    /\ WF_vars(StopHTTPBegin)
    /\ WF_vars(StopHTTPWait)
    /\ WF_vars(StopCloseDB)
    /\ WF_vars(StopCloseErrChan)
    /\ \A i \in 1..MaxHTTP :
          /\ WF_vars(i \in DOMAIN HTTPServers /\ HTTPListenAndServe(i))
          /\ WF_vars(i \in DOMAIN HTTPServers /\ HTTPServeClosed(i))
          /\ WF_vars(i \in DOMAIN HTTPServers /\ HTTPSend(i))
    /\ \A i \in 1..MaxGRPC :
          /\ WF_vars(i \in DOMAIN GRPCServers /\ GRPCListenAndServe(i))
          /\ WF_vars(i \in DOMAIN GRPCServers /\ GRPCServeStopped(i))
          /\ WF_vars(i \in DOMAIN GRPCServers /\ GRPCSend(i))

FairSpec == Spec /\ LifeFairness

ProbeFairness ==
    /\ WF_vars(AliveDial)
    /\ WF_vars(AliveRetry)
    /\ WF_vars(AliveReturn)
    /\ \A k \in Sweepers :
          /\ WF_vars(ReadySubs(k))
          /\ WF_vars(ReadyDial(k))
          /\ WF_vars(ReadyRetry(k))
          /\ WF_vars(ReadyStore(k))
    /\ \A i \in 1..MaxHTTP :
          WF_vars(i \in DOMAIN HTTPServers /\ HTTPListenAndServe(i))

FairProbeSpec == ProbeSpec /\ ProbeFairness

(* ------------------------------ claims --------------------------------- *)

Count(log, kind) == Cardinality({i \in DOMAIN log : log[i] = kind})

Rank(kind) == CASE kind = "sub" -> 1
                [] kind \in {"grpc", "http"} -> 2
                [] kind = "db" -> 3
                [] kind = "chan" -> 4

Listeners == Len(GRPCServers) + Len(HTTPServers)

C2_NoSendAfterClose ==
    (stopNormal /\ stopCalls = 1 /\ errChanClosed)
       => /\ \A i \in DOMAIN HTTPServers : httpTask[i] \notin {"send", "panic"}
          /\ \A i \in DOMAIN GRPCServers : grpcTask[i] \notin {"send", "panic"}

\* a resource has received no more than n close calls
ClosedAtMost(n) ==
    /\ \A d \in SubNames : subCloses[d] <= n
    /\ \A i \in DOMAIN GRPCServers : grpcStops[i] <= n
    /\ \A i \in DOMAIN HTTPServers : httpStops[i] <= n
    /\ dbCloses <= n

\* C3 (as claimed): whatever Start() and Stop() calls were made, every
\* dependent, listener and the data store has been closed at most once.
C3_ClosedAtMostOnce == ClosedAtMost(1)

\* C3 (amended): every dependent, listener and the data store has been
\* closed at most once per Stop() call, so at most once while Stop() has
\* been called once.
C3_ClosedOncePerStop == ClosedAtMost(stopCalls)

\* one Stop() has run to its end and has closed every resource once
C3_Witness ==
    /\ stopCalls = 1 /\ stopPc = "done"
    /\ SubServices = SubNames /\ \A d \in SubNames : subCloses[d] = 1
    /\ GRPCServers # <<>> /\ \A i \in DOMAIN GRPCServers : grpcStops[i] = 1
    /\ HTTPServers # <<>> /\ \A i \in DOMAIN HTTPServers : httpStops[i] = 1
    /\ DB /\ dbCloses = 1

\* C4: Start() has returned only if its signal wait had returned before.
C4_StartReturnsAfterWait == startRet # "none" => waitRet # "none"

\* Start() has returned nil after a listener had failed and a sweep had run
C4_Witness ==
    /\ startRet = "nil"
    /\ waitRet = "sig"
    /\ \E i \in DOMAIN HTTPServers : httpTask[i] \in {"send", "done"} /\ ~httpShut[i]
    /\ sweepLog # <<>>

HTTPTaskAt(i, pc) == i \in DOMAIN HTTPServers /\ httpTask[i] = pc

GRPCTaskAt(i, pc) == i \in DOMAIN GRPCServers /\ grpcTask[i] = pc

\* C5 (as claimed): once the termination signal has been delivered, a
\* listener task at its send on the error queue completes the send and ends.
C5_ProducersComplete ==
    /\ \A i \in 1..MaxHTTP :
          (trigger = "sig" /\ HTTPTaskAt(i, "send")) ~> HTTPTaskAt(i, "done")
    /\ \A i \in 1..MaxGRPC :
          (trigger = "sig" /\ GRPCTaskAt(i, "send")) ~> GRPCTaskAt(i, "done")

\* C6 (as claimed): an IsAlive() call returns.
C6_IsAliveTerminates == (alivePc # "idle") ~> (alivePc = "idle")

\* C7 (as claimed): Stop(), called after the termination signal, runs to
\* its end.
C7_StopCompletes ==
    (trigger = "sig" /\ stopCalls = 1 /\ stopPc # "done") ~> (stopPc = "done")

\* C8: while the last completed sweep is one a dependent answered
\* not-ready to, the snapshot is false.
C8_NotReadyGivesFalse ==
    (sweepLog # <<>> /\ sweepLog[Len(sweepLog)].notReady) => ~isReady

\* a sweep has completed in which one of two dependents answered
\* not-ready while the listeners and the data store were reachable
C8_Witness ==
    /\ sweepLog # <<>>
    /\ sweepLog[Len(sweepLog)].notReady
    /\ sweepLog[Len(sweepLog)].dbAlive
    /\ SubServices = SubNames
    /\ HTTPServers # <<>> /\ GRPCServers # <<>> /\ DB

\* C9: with a data store registered and no dependent answering not-ready,
\* the snapshot is what the last completed sweep found of the store:
\* false when its Ping failed, true when it succeeded.
C9_SnapshotFollowsStore ==
    (DB /\ sweepLog # <<>> /\ ~sweepLog[Len(sweepLog)].notReady)
       => isReady = sweepLog[Len(sweepLog)].dbAlive

\* a sweep found the store unreachable, and a later one, after the store
\* had come back, has stored true
C9_Witness ==
    /\ DB
    /\ Len(sweepLog) = 2
    /\ ~sweepLog[1].notReady /\ ~sweepLog[1].dbAlive
    /\ ~sweepLog[2].notReady /\ sweepLog[2].dbAlive
    /\ isReady

NothingRegistered ==
    GRPCServers = <<>> /\ HTTPServers = <<>> /\ SubServices = {} /\ ~DB

\* C10: on a Service with no listener, no dependent and no data store,
\* IsAlive() does not return false and a completed sweep has stored true.
C10_VacuousTrue ==
    (svc = "built" /\ NothingRegistered)
       => /\ aliveRet # "false"
          /\ sweepLog # <<>> => isReady

\* on such a Service IsAlive() has returned true and a sweep has completed
C10_Witness ==
    /\ svc = "built" /\ NothingRegistered
    /\ aliveRet = "true"
    /\ sweepLog # <<>> /\ isReady

\* C11 (as claimed): an IsAlive() called on a started Service whose one
\* listener has its address held by another endpoint does not return true.
C11_ConflictGivesFalse == aliveConflict => aliveRet # "true"

\* a failure other than "listener closed"
Failure(end) == end \in {"bind", "serve"}

\* C12: a listener task comes to its send on the error queue exactly when
\* its bind or its serving has ended with a failure other than "listener
\* closed", a failed bind like a failed serve; and a task with such a
\* failure is at its send, has panicked in it, or has handed the error over.
C12_FailuresArePushed ==
    /\ \A i \in DOMAIN HTTPServers :
          /\ Failure(httpEnd[i]) <=> httpPush[i] # "none"
          /\ Failure(httpEnd[i]) =>
                \/ httpTask[i] \in {"send", "panic"}
                \/ httpTask[i] = "done" /\ httpPush[i] = "sent"
          /\ httpTask[i] = "send" => Failure(httpEnd[i])
    /\ \A i \in DOMAIN GRPCServers :
          /\ Failure(grpcEnd[i]) <=> grpcPush[i] # "none"
          /\ Failure(grpcEnd[i]) =>
                \/ grpcTask[i] \in {"send", "panic"}
                \/ grpcTask[i] = "done" /\ grpcPush[i] = "sent"
          /\ grpcTask[i] = "send" => Failure(grpcEnd[i])

\* a failed bind of the gRPC listener and a failed serve of the HTTP
\* listener have both been handed over on the error queue
C12_Witness ==
    /\ \E i \in DOMAIN GRPCServers : grpcEnd[i] = "bind" /\ grpcPush[i] = "sent"
    /\ \E i \in DOMAIN HTTPServers : httpEnd[i] = "serve" /\ httpPush[i] = "sent"
    /\ observed = 2

\* C13: Start() has returned the error exactly when its wait returned an
\* error other than the sentinel, and nil exactly when the wait returned
\* nil or the sentinel; the fan-in sink has been started exactly when
\* Start() returned nil; and as long as the caller has not called Stop()
\* nothing has been closed, stopped or shut down.
C13_StartReturn ==
    /\ (startRet = "err") = (startPc = "returned" /\ waitRet = "err")
    /\ (startRet = "nil") = (startPc = "returned" /\ waitRet = "sig")
    /\ (drainPc # "none") = (startRet = "nil")
    /\ stopCalls = 0 =>
          /\ ~errChanClosed
          /\ ClosedAtMost(0)
          /\ \A i \in DOMAIN GRPCServers : ~grpcStopped[i]
          /\ \A i \in DOMAIN HTTPServers : ~httpShut[i]

\* Start() has returned the error of its wait while a listener task had
\* an error to report: no sink runs and nothing has been torn down
C13_Witness ==
    /\ startRet = "err"
    /\ drainPc = "none"
    /\ stopCalls = 0
    /\ \E i \in DOMAIN HTTPServers : httpTask[i] = "send"
    /\ \E i \in DOMAIN GRPCServers : grpcTask[i] = "serving"

\* C14: a Stop() that has run to its end has called Close on every
\* dependent, GracefulStop on every gRPC server, Shutdown on every HTTP
\* server and Close on the data store, and has closed the error queue,
\* whichever Close and Shutdown calls failed.
C14_BestEffortTeardown ==
    stopPc = "done" =>
       /\ \A n \in SubServices : subCloses[n] >= stopCalls
       /\ \A i \in DOMAIN GRPCServers : grpcStops[i] >= stopCalls
       /\ \A i \in DOMAIN HTTPServers : httpStops[i] >= stopCalls
       /\ DB => dbCloses >= stopCalls
       /\ errChanClosed

\* a Stop() has run to its end although the Close of both dependents and
\* the Shutdown of the HTTP server failed
C14_Witness ==
    /\ stopPc = "done"
    /\ stopErrs.subs = SubNames
    /\ stopErrs.http # {}
    /\ GRPCServers # <<>>
    /\ DB /\ dbCloses = 1
    /\ errChanClosed

\* C15: a call of AddGRPCService with a name no gRPC server has returns
\* "gRPC server not found" and leaves the servers, their services, the data
\* store and the dependents as they were; with a name a server has it
\* returns nil, registers one more service on one server of that name and
\* adds no server.
C15_AddGRPCService ==
    [][addCalls' # addCalls =>
          IF \E i \in DOMAIN GRPCServers : GRPCServers[i] = addArg'
             THEN /\ addRet' = "nil"
                  /\ UNCHANGED <<GRPCServers, HTTPServers, DB, SubServices>>
                  /\ \E i \in DOMAIN GRPCServers :
                        /\ GRPCServers[i] = addArg'
                        /\ grpcServices' = [grpcServices EXCEPT ![i] = @ + 1]
             ELSE /\ addRet' = "notfound"
                  /\ UNCHANGED <<GRPCServers, HTTPServers, DB, SubServices,
                                 grpcServices>>]_vars

\* of two calls on a Service with a gRPC server, one has registered a
\* service and the last one has found no server of its name
C15_Witness ==
    /\ addCalls = 2
    /\ addRet = "notfound"
    /\ GRPCServers # <<>>
    /\ grpcServices[1] = 1

\* C16: New hands out a Service only when no option has failed and none is
\* left to apply; when an option fails New stops at it, with that option
\* and the ones after it still unapplied, no Service is handed out, and
\* nothing is applied or called afterwards.
C16_NewFailsFast ==
    /\ [](/\ applyErr <=> svc = "failed"
          /\ svc = "built" => pending = <<>>
          /\ svc = "failed" => /\ pending # <<>>
                               /\ Head(pending) = [kind |-> "db", arg |-> "bad"]
                               /\ startPc = "idle" /\ stopCalls = 0
                               /\ addCalls = 0 /\ SubServices = {})
    /\ [][svc = "failed" => UNCHANGED vars]_vars

\* New has failed at its second option, after it had applied the first and
\* with a third one left
C16_Witness ==
    /\ svc = "failed"
    /\ Len(pending) = 2
    /\ Len(GRPCServers) + Len(HTTPServers) = 1

\* C17 (as claimed): no two gRPC servers of the registry have the same
\* address, and no two HTTP servers.
C17_UniqueAddresses ==
    /\ \A i, j \in DOMAIN GRPCServers :
          i # j => GRPCServers[i] # GRPCServers[j]
    /\ \A i, j \in DOMAIN HTTPServers :
          i # j => HTTPServers[i] # HTTPServers[j]

\* C18: the handler answers 200 exactly when every checker returned true;
\* otherwise it answers 503 with a body of code 503 and the one detail
\* text, whichever checkers failed.
C18_LiveProbe ==
    liveResponse # NoResponse =>
       IF \A i \in DOMAIN liveAnswers : liveAnswers[i]
          THEN liveResponse.status = 200
          ELSE /\ liveResponse.status = 503
               /\ liveResponse.ErrorCode = 503
               /\ liveResponse.ErrorDetails = "error during request processing"

\* a handler with three checkers has answered 503 to a request at which
\* only the last checker failed
C18_Witness ==
    /\ Len(areAlive) = 3
    /\ liveAnswers = <<TRUE, TRUE, FALSE>>
    /\ liveResponse.status = 503
    /\ liveResponse.written

\* C19: the snapshot is false until a sweep has completed, and from then
\* on it is the result of the sweep that completed last, whatever the
\* sweeps still in flight have found so far.
C19_SnapshotIsCompletedResult ==
    isReady =
       (/\ sweepLog # <<>>
        /\ ReadyResult(~sweepLog[Len(sweepLog)].notReady,
                       GRPCServers = <<>> \/ checkGRPCServerUp,
                       TRUE,
                       ~DB \/ sweepLog[Len(sweepLog)].dbAlive))

\* two sweeps are in flight at once, one of them has been told by a
\* dependent that it is not ready, and the snapshot still holds the true
\* of the sweep that completed before
C19_Witness ==
    /\ \A k \in Sweepers : sweepPc[k] # "idle"
    /\ \E k \in Sweepers : sweepNotReady[k]
    /\ sweepLog # <<>>
    /\ isReady

\* C20 (as claimed): the fan-in sink is started only after the wait of
\* Start() has returned for the trigger, it ends only once the error queue
\* is closed, and it never receives an error whose task came to its send
\* before the trigger: those are consumed before the sink exists.
C20_SequencedConsumers ==
    /\ [](drainPc # "none" => waitRet = "sig")
    /\ [](drainPc = "done" => errChanClosed)
    /\ [][\A i \in DOMAIN httpPush :
             (httpPush[i] # "sent" /\ httpPush'[i] = "sent")
                => httpPush[i] = "late"]_vars
    /\ [][\A i \in DOMAIN grpcPush :
             (grpcPush[i] # "sent" /\ grpcPush'[i] = "sent")
                => grpcPush[i] = "late"]_vars

\* C21: in an execution of configuration, one Start() and one Stop(), one
\* serving task is launched for every registered listener (none before
\* Start), no listener is stopped more than once, and once Stop() has
\* returned every listener has been stopped exactly once.
C21_StartedOnceStoppedOnce ==
    stopCalls <= 1 =>
       /\ \A i \in DOMAIN HTTPServers :
             /\ httpStarts[i] = IF startPc = "idle" THEN 0 ELSE 1
             /\ httpStops[i] <= 1
             /\ stopPc = "done" => httpStops[i] = 1
       /\ \A i \in DOMAIN GRPCServers :
             /\ grpcStarts[i] = IF startPc = "idle" THEN 0 ELSE 1
             /\ grpcStops[i] <= 1
             /\ stopPc = "done" => grpcStops[i] = 1

\* Start() has returned and the one Stop() after it has returned, with two
\* HTTP listeners and a gRPC listener registered
C21_Witness ==
    /\ startPc = "returned"
    /\ stopCalls = 1
    /\ stopPc = "done"
    /\ Len(HTTPServers) = 2
    /\ Len(GRPCServers) = 1
    /\ \A i \in DOMAIN HTTPServers : httpStarts[i] = 1 /\ httpStops[i] = 1
    /\ \A i \in DOMAIN GRPCServers : grpcStarts[i] = 1 /\ grpcStops[i] = 1

\* a step of IsAlive(), of Stop(), of AddGRPCService() or of
\* GetHealthStatus()
ReaderStep ==
    \/ aliveVars' # aliveVars
    \/ stopVars' # stopVars
    \/ stopPc = "close" /\ crashed' # crashed
    \/ addVars' # addVars
    \/ healthStatus' # healthStatus

\* C22: the snapshot is false until a Ready() sweep has completed; it
\* changes only in the step in which a sweep swaps its result in; and no
\* step of IsAlive(), Stop(), AddGRPCService() or GetHealthStatus() changes
\* it.
C22_ReadyIsOnlyWriter ==
    /\ [](sweepLog = <<>> => ~isReady)
    /\ [][isReady' # isReady =>
             \E k \in Sweepers : sweepPc[k] = "store" /\ sweepPc'[k] = "idle"]_vars
    /\ [][ReaderStep => isReady' = isReady]_vars

\* a sweep has stored true; since then AddGRPCService() has registered a
\* service, Start() and Stop() have returned, and IsAlive() and
\* GetHealthStatus() have returned what they found after the teardown; the
\* snapshot is still true
C22_Witness ==
    /\ isReady
    /\ \A k \in Sweepers : sweepPc[k] # "store"
    /\ Len(sweepLog) = 1
    /\ addRet = "nil"
    /\ startPc = "returned"
    /\ stopCalls = 1 /\ stopPc = "done"
    /\ alivePc = "idle" /\ aliveRet = "false"
    /\ healthStatus = [Status |-> "ok",
                       Services |-> {<<"database", "unhealthy">>}]

=============================================================================
